---- MODULE Spec2Model ----
(***************************************************************************)
(* linkbot: a Slack bot that sniffs messages for labels (ticket numbers)   *)
(* and replies with a link.  The model follows src/linkbot.py and          *)
(* src/linkbot/clients.py.                                                  *)
(*                                                                         *)
(* A message text is a sequence of tokens.  A token is either one          *)
(* character (" " a non-word character, "x" a word character) or one       *)
(* occurrence of a label, which begins and ends with a word character.     *)
(* A MATCH pattern is a literal label, compared case-insensitively (re.I). *)
(* Reply texts are strings; a %-template is the sequence of its pieces,    *)
(* the piece "%s" being the conversion.                                    *)
(*                                                                         *)
(* Loading the module builds and starts the pool threads "w1" and "w2",    *)
(* which wait in q.get(); run as a script it then calls linkbot(), the     *)
(* receive loop "main".  Every one of the three owns the responders its    *)
(* own get_message_processor call built;                                   *)
(* the list objects behind QUIPS (the class attribute LinkBot.QUIPS and    *)
(* the 'QUIPS' value of each configured dictionary) live in heap and are   *)
(* referred to by name, as Python refers to them by reference.             *)
(*                                                                         *)
(* The interpreter is part of the state: the source runs on CPython 3.6    *)
(* and later (its f-strings), and two of the calls it makes differ between *)
(* the releases.  Up to CPython 3.9 the module collections holds Mapping   *)
(* and random.choice reads the length of its argument once; from 3.10 on   *)
(* collections.Mapping is an AttributeError, and the random.choice of 3.11 *)
(* reads the length twice.  A run has one interpreter, chosen at the start *)
(* and kept: python is "3.9" or "3.11".                                    *)
(***************************************************************************)
EXTENDS Naturals, Sequences, FiniteSets, TLC

VARIABLES
    python,     \* the CPython release that runs the program
    linkbots,   \* linkconfig.LINKBOTS as loaded: a sequence of dictionaries
    heap,       \* the QUIPS list objects, by name
    link_bots,  \* per dispatcher: the responders get_message_processor built
    pc,         \* per dispatcher: where its thread is
    cur,        \* per dispatcher: j, the event being dispatched
    bi,         \* per dispatcher: index of bot in "for bot in link_bots"
    ms,         \* per dispatcher: the matches of bot not yet handled
    link,       \* per dispatcher: _quip's argument
    idx,        \* per dispatcher: the position choice() computed from
                \* len(seq), counted from 1, while seq[i] is still to be read
    quip,       \* per dispatcher: _quip's local, the template choice() drew
    reply,      \* per dispatcher: the text bot.message returned
    posted,     \* per dispatcher: the chat.post_message calls of its dispatch
    outcome,    \* per dispatcher: the exception leaving process_slack_message
    draws,      \* per dispatcher: the first draws of _quip of its responder,
                \* in order, when it has exactly one
    record,     \* per dispatcher: ServiceNowBot.message's local record
    q           \* the module's Queue

vars == <<python, linkbots, heap, link_bots, pc, cur, bi, ms, link, idx, quip, reply,
          posted, outcome, draws, record, q>>

-----------------------------------------------------------------------------
(* Bounds of the model *)

\* a message text has at most this many tokens
MaxTextLen == 4
\* the class attribute LinkBot.QUIPS is cut to its first entries
MaxClassQuips == 2
\* draws records at most this many draws per responder
MaxDraws == 3

-----------------------------------------------------------------------------
(* Python dictionaries: a function whose domain is the set of keys present *)

DictGet(d, key, default) == IF key \in DOMAIN d THEN d[key] ELSE default

Range(s) == {s[i] : i \in 1..Len(s)}

\* list.remove(x): deletes the first element equal to x
RECURSIVE ListRemove(_, _)
ListRemove(s, x) ==
    IF s = <<>> THEN <<>>
    ELSE IF Head(s) = x THEN Tail(s)
    ELSE <<Head(s)>> \o ListRemove(Tail(s), x)

\* template % args: every "%s" piece takes the next argument
RECURSIVE Fmt(_, _)
Fmt(tpl, args) ==
    IF tpl = <<>> THEN ""
    ELSE IF Head(tpl) = "%s" THEN Head(args) \o Fmt(Tail(tpl), Tail(args))
    ELSE Head(tpl) \o Fmt(Tail(tpl), args)

\* sep.join(lines)
RECURSIVE Join(_, _)
Join(sep, lines) ==
    IF lines = <<>> THEN ""
    ELSE IF Len(lines) = 1 THEN lines[1]
    ELSE lines[1] \o sep \o Join(sep, Tail(lines))

-----------------------------------------------------------------------------
(* Texts *)

NonWord == {" "}
WordChar == {"x"}
LabelTokens == {"ABC-1", "abc-1", "INC2", "inc2"}

Lower(tok) ==
    CASE tok = "ABC-1" -> "abc-1"
      [] tok = "INC2" -> "inc2"
      [] OTHER -> tok

\* the pattern, a literal, matches one token under re.I
PatMatches(pattern, tok) == tok \in LabelTokens /\ Lower(tok) = Lower(pattern)

\* (\W|\Z) at position k: \W takes one non-word character, else \Z needs the end
TailWidth(text, k) ==
    IF k <= Len(text) /\ text[k] \in NonWord THEN 1
    ELSE IF k > Len(text) THEN 0
    ELSE 2

\* re.findall(r'(\A|\W)(%s)(\W|\Z)' % self._match, text, flags=re.I), each
\* tuple cut to its group 2: the scan restarts where the last match ended, so
\* a delimiter a match has taken is not there for the next one
RECURSIVE FindAll(_, _, _)
FindAll(pattern, text, i) ==
    IF i > Len(text) THEN <<>>
    ELSE IF /\ i = 1
            /\ PatMatches(pattern, text[i])
            /\ TailWidth(text, i + 1) < 2
         THEN <<text[i]>> \o FindAll(pattern, text, i + 1 + TailWidth(text, i + 1))
    ELSE IF /\ text[i] \in NonWord
            /\ i + 1 <= Len(text)
            /\ PatMatches(pattern, text[i + 1])
            /\ TailWidth(text, i + 2) < 2
         THEN <<text[i + 1]>> \o FindAll(pattern, text, i + 2 + TailWidth(text, i + 2))
    ELSE FindAll(pattern, text, i + 1)

\* LinkBot.match, as process_slack_message uses it (match[1] of every tuple)
Match(pattern, text) == FindAll(pattern, text, 1)

-----------------------------------------------------------------------------
(* Program constants *)

Procs == {"main", "w1", "w2"}
\* the threads of "for _ in range(2)", in the order they are started
Workers == <<"w1", "w2">>

\* the class attribute LinkBot.QUIPS
QUIPS == <<
    <<"%s">>,
    <<"linkbot noticed a link!  ", "%s">>,
    <<"Oh, here it is... ", "%s">>,
    <<"Maybe this, ", "%s", ", will help?">>,
    <<"Click me!  ", "%s">>,
    <<"Click my shiny metal link!  ", "%s">>,
    <<"Here, let me link that for you... ", "%s">>,
    <<"Couldn't help but notice ", "%s", " was mentioned...">>,
    <<"Not that I was eavesdropping, but did you mention ", "%s", "?">>,
    <<"hmmmm, did you mean ", "%s", "?">>,
    <<"%s", "...  Mama said there'd be days like this...">>,
    <<"%s", "?  An epic, yet approachable tale...">>,
    <<"%s", "?  Reminds me of a story...">> >>

\* conf.get('LINK', '%s|%s')
DefaultLink == <<"%s", "|", "%s">>

\* the names of globals() that LINK_CLASS can select a responder by
BotClasses == {"LinkBot", "JiraLinkBot", "ServiceNowBot"}

\* other names of globals() whose call with the dictionary builds an object,
\* one with no match method: the exception class and the imported classes
\* Queue (the dictionary becomes its maxsize) and Slacker
OtherClasses == {"LinkBotSeenException", "Queue", "Slacker"}

\* the names linkbot.py binds to a module
Modules == {"json", "re", "threading", "clients", "linkconfig"}

\* names of globals() whose call with the dictionary raises TypeError when
\* dispatcher d is built: modules, the generator, the list, the loop variable
\* and the queue are not callable, partial wants a callable, index and
\* linkbot take no argument; the Thread t is bound once the first thread has
\* been built
NotCallable(d) ==
    Modules
    \cup {"NETID_GEN", "threads", "_", "q", "partial", "index", "linkbot"}
    \cup (IF d = "w1" THEN {} ELSE {"t"})

\* names globals() does not hold when dispatcher d is built: names nothing
\* binds, and names bound further down the module than the call
Unbound(d) ==
    {"WikiBot"}
    \cup (IF d = "w1" THEN {"t"} ELSE {})
    \cup (IF d = "main" THEN {} ELSE {"application"})

\* the interpreters told apart: the last release whose collections module
\* holds Mapping, and the release whose random.choice reads len(seq) twice
Interpreters == {"3.9", "3.11"}

\* robo_id: slack.auth.test().body.get('user_id')
RoboId == "U0LINKBOT"

\* ServiceNowClient.table_map, keyed by the number with its digits removed
TicketType(number) ==
    CASE number = "INC2" -> "INC"
      [] number = "inc2" -> "inc"
      [] number = "ABC-1" -> "ABC-"
      [] number = "abc-1" -> "abc-"
      [] OTHER -> number

TableMap(ticket_type) ==
    CASE ticket_type = "REQ" -> "u_simple_requests"
      [] ticket_type = "INC" -> "incident"
      [] ticket_type = "RTASK" -> "u_request_task"
      [] ticket_type = "ITASK" -> "u_incident_task"
      [] OTHER -> ""

\* ServiceNowClient._table_from_number: "" stands for the KeyError it raises
TableFromNumber(number) == TableMap(TicketType(number))

\* ServiceNowRecord.fields, in the order items() yields them
RecordFields == <<
    <<"short_description", "Subject">>,
    <<"number", "Number">>,
    <<"parent", "Parent">>,
    <<"state", "State">>,
    <<"assigned_to", "Assigned To">>,
    <<"opened_by", "Opened By">>,
    <<"sys_updated_on", "Last Update">> >>

-----------------------------------------------------------------------------
(* Inputs: configurations, events, answers of the external services *)

LinkT == <<"<", "%s", "|", "%s", ">">>
ConfQuips == << <<"see ", "%s">>, <<"%s", " here">> >>

\* one generic responder with an empty quip set
ConfBare == [MATCH |-> "ABC-1", LINK |-> LinkT, QUIPS |-> <<>>]
\* one generic responder with its own quips
ConfOwn == [MATCH |-> "ABC-1", LINK |-> LinkT, QUIPS |-> ConfQuips]
\* a generic responder on the defaults: the class list LinkBot.QUIPS, which
\* every responder on the defaults shares, and the link template %s|%s
ConfDefault == [MATCH |-> "ABC-1"]
ConfJira == [LINK_CLASS |-> "JiraLinkBot", MATCH |-> "ABC-1", LINK |-> LinkT,
             QUIPS |-> ConfQuips, HOST |-> "https://jira"]
ConfSnow == [LINK_CLASS |-> "ServiceNowBot", MATCH |-> "INC2",
             QUIPS |-> ConfQuips, HOST |-> "https://snow"]
ConfUnknown == [LINK_CLASS |-> "WikiBot", MATCH |-> "ABC-1"]
\* LINK_CLASS values that name something else the module holds
ConfException == [LINK_CLASS |-> "LinkBotSeenException", MATCH |-> "ABC-1"]
ConfPartial == [LINK_CLASS |-> "partial", MATCH |-> "ABC-1"]
ConfThread == [LINK_CLASS |-> "t", MATCH |-> "ABC-1"]
ConfWorker == [LINK_CLASS |-> "worker", MATCH |-> "ABC-1"]
\* responders that share the pattern of ConfSnow
ConfOwnInc == [MATCH |-> "INC2", LINK |-> LinkT, QUIPS |-> ConfQuips]
ConfJiraInc == [LINK_CLASS |-> "JiraLinkBot", MATCH |-> "INC2", QUIPS |-> <<>>,
                HOST |-> "https://jira"]

Configs == {
    <<>>, <<ConfUnknown>>, <<ConfBare, ConfUnknown>>,
    <<ConfException>>, <<ConfPartial, ConfUnknown>>, <<ConfThread>>,
    <<ConfWorker>>,
    <<ConfBare>>, <<ConfOwn>>, <<ConfJira>>, <<ConfSnow>>,
    <<ConfDefault, ConfDefault>>, <<ConfOwnInc, ConfSnow>>,
    <<ConfSnow, ConfJiraInc>> }

Channels == {"#dev", "#ops"}

\* the tokens a text is made of under configuration lb: one non-word and one
\* word character, the configured patterns as they are written and, when
\* there is one responder, every other spelling of its pattern too
Alphabet(lb) ==
    NonWord \cup WordChar \cup
    {tok \in LabelTokens : \E i \in 1..Len(lb) :
        /\ PatMatches(lb[i].MATCH, tok)
        /\ Len(lb) = 1 \/ tok = lb[i].MATCH}

Texts(lb) == UNION {[1..n -> Alphabet(lb)] : n \in 0..MaxTextLen}

\* the values of the key bot_id: the id of a bot, and the empty string, which
\* stands for every value Python takes as false ('', null, 0)
BotIds == {"B1", ""}

\* what json.loads yields for one inbound payload: an event that is no
\* message, a message of a user, a message with the key bot_id
Events(lb) ==
    {[type |-> "hello"]}
    \cup {[type |-> "message", text |-> t, channel |-> c] :
            t \in Texts(lb), c \in Channels}
    \cup {[type |-> "message", text |-> t, channel |-> "#dev", bot_id |-> b] :
            t \in Texts(lb), b \in BotIds}

\* the values of a record's parent: none, a number of a known table, and a
\* number of a table table_map does not hold
SnowParents == {"", "INC2", "ABC-1"}

\* the records a ServiceNow lookup can answer with
SnowRecords(number) == {
    [short_description |-> "", number |-> number, parent |-> p,
     state |-> "Open", assigned_to |-> "", opened_by |-> "Ann",
     sys_updated_on |-> "2020-01-01"] : p \in SnowParents }

\* ServiceNowClient.get's answers: a record, or the KeyError of a status that
\* is not 200 or of an empty result
SnowAnswers(number) ==
    {[status |-> "found", record |-> r] : r \in SnowRecords(number)}
    \cup {[status |-> "KeyError"]}

\* the issues a Jira lookup can answer with; free text is kept as pieces, one
\* piece per character that _escape_html rewrites
JiraIssues == {
    [summary |-> <<"a", "<", "b", "&", "c">>, reporter |-> <<"Ann">>,
     assignee |-> <<>>, status |-> <<"Open">>] }

JiraAnswers ==
    {[status |-> "found", issue |-> i] : i \in JiraIssues}
    \cup {[status |-> "Exception"]}

\* chat.post_message: it returns, or raises; of what it raises the receive
\* loop tells KeyError from the rest
PostAnswers == {"ok", "KeyError", "Error"}

-----------------------------------------------------------------------------
(* Responders *)

ListIds == {"[]", "LinkBot.QUIPS", "LINKBOTS[0]['QUIPS']", "LINKBOTS[1]['QUIPS']"}

\* the name of the list object bot_conf['QUIPS'] of the i-th dictionary
ConfList(i) == <<"LINKBOTS[0]['QUIPS']", "LINKBOTS[1]['QUIPS']">>[i]

\* bot_conf.get('LINK_CLASS', 'LinkBot')
LinkClass(i) == DictGet(linkbots[i], "LINK_CLASS", "LinkBot")

\* bot_class(bot_conf).  LinkBot.__init__ (the subclasses add a client):
\* _quips is the object the configuration (or the class) holds, _quiplist a
\* new empty list.  An object of another class has none of these attributes.
NewBot(i) ==
    IF LinkClass(i) \in BotClasses
    THEN [class |-> LinkClass(i),
          conf |-> i,
          _quips |-> IF "QUIPS" \in DOMAIN linkbots[i] THEN ConfList(i)
                     ELSE "LinkBot.QUIPS",
          _quiplist |-> "[]",
          _seen |-> <<>>]
    ELSE [class |-> LinkClass(i), conf |-> i]

\* how the i-th turn of the configuration loop of dispatcher d ends, for the
\* names linkbot.py itself binds: globals()[...] raises KeyError on a name the
\* module does not hold; the call of something that takes no dictionary
\* raises TypeError; choice(bot_conf) subscripts the dictionary with a number
\* (KeyError); get_message_processor(bot_conf) reads bot_conf.auth
\* (AttributeError); worker(bot_conf) waits in q.get() and never returns
\* ("blocks").  What Flask, create_connection and app do with a dictionary
\* is decided by packages that are not part of the source.
BuildError(d, i) ==
    CASE LinkClass(i) \in BotClasses \cup OtherClasses -> "none"
      [] LinkClass(i) \in NotCallable(d) -> "TypeError"
      [] LinkClass(i) \in Unbound(d) \cup {"choice"} -> "KeyError"
      [] LinkClass(i) = "get_message_processor" -> "AttributeError"
      [] LinkClass(i) = "worker" -> "blocks"

\* get_message_processor, called for dispatcher d, up to "def
\* process_slack_message": the first turn of the configuration loop that does
\* not build an object ends it, and no bot raises Exception
Processor(d) ==
    IF \E i \in 1..Len(linkbots) : BuildError(d, i) # "none"
    THEN LET first == CHOOSE i \in 1..Len(linkbots) :
                          /\ BuildError(d, i) # "none"
                          /\ \A k \in 1..(i - 1) : BuildError(d, k) = "none"
         IN  [raised |-> BuildError(d, first), bots |-> <<>>]
    ELSE IF Len(linkbots) = 0
    THEN [raised |-> "Exception", bots |-> <<>>]
    ELSE [raised |-> "none", bots |-> [i \in 1..Len(linkbots) |-> NewBot(i)]]

\* a filter that forgets the bot_id
IgnoredTypeOnly(j) == j.type # "message"

\* process_slack_message lines 168-170: the events it does nothing on; a
\* message is one of them when j.get('bot_id') is true, that is, present and
\* not empty
Ignored(j) == j.type # "message" \/ DictGet(j, "bot_id", "") # ""

\* a message that never finds its label in _seen
AlreadySeenNever(bot, link_label) == FALSE

\* LinkBot.message line 68
AlreadySeen(bot, link_label) == link_label \in Range(bot._seen)

\* self._link % (link_label, link_label)
BaseLink(bot, link_label) ==
    Fmt(DictGet(linkbots[bot.conf], "LINK", DefaultLink), <<link_label, link_label>>)

\* ServiceNowClient.link and ServiceNowBot._strlink; the host is
\* conf.get('HOST'), which is None when the dictionary has no HOST, and
\* format writes None as "None"
StrLink(bot, link_label) ==
    LET table == TableFromNumber(link_label)
        url == DictGet(linkbots[bot.conf], "HOST", "None") \o "/" \o table
               \o ".do?sysparm_table=" \o table
               \o "&sysparm_query=number%3D" \o link_label
    IN  "<" \o url \o "|" \o link_label \o ">"

\* LinkBot._escape_html over the pieces of a text
RECURSIVE EscapeHtml(_)
EscapeHtml(text) ==
    IF text = <<>> THEN ""
    ELSE (CASE Head(text) = "&" -> "&amp;"
            [] Head(text) = "<" -> "&lt;"
            [] Head(text) = ">" -> "&gt;"
            [] OTHER -> Head(text)) \o EscapeHtml(Tail(text))

\* get_name: person and person.displayName or 'None'
GetName(person) == IF person = <<>> THEN <<"None">> ELSE person

\* JiraLinkBot.message after super().message returned msg
JiraText(msg, answer) ==
    IF answer.status # "found" THEN msg
    ELSE LET issue == answer.issue
             lines == << EscapeHtml(issue.summary),
                         EscapeHtml(<<"*Reporter* ">> \o GetName(issue.reporter)),
                         EscapeHtml(<<"*Assignee* ">> \o GetName(issue.assignee)),
                         EscapeHtml(<<"*Status* ">> \o issue.status) >>
         IN  Join("\n> ", <<msg>> \o lines)

\* ServiceNowRecord.items line 85 reads collections.Mapping for every field:
\* the name is there up to CPython 3.9 and an AttributeError after it
HasMapping == python = "3.9"

\* the loop of ServiceNowBot.message over record.items(pretty_names=True),
\* from the k-th field on.  Where collections has no Mapping, items() raises
\* AttributeError on the field it is asked for, the first one, and the loop
\* adds no line.  Where it has, the values are strings, which items() yields
\* as they are (no mapping with a display_value among them), and _strlink of
\* a parent whose type table_map does not hold raises KeyError.  What is
\* raised ends the loop and leaves message.
RECURSIVE SnowLines(_, _, _)
SnowLines(bot, rec, k) ==
    IF k > Len(RecordFields) THEN [raised |-> "none", lines |-> <<>>]
    ELSE IF ~HasMapping THEN [raised |-> "AttributeError", lines |-> <<>>]
    ELSE LET key == RecordFields[k][2]
             value == rec[RecordFields[k][1]]
         IN  IF key = "Parent" /\ value # "" /\ TableFromNumber(value) = ""
             THEN [raised |-> "KeyError", lines |-> <<>>]
             ELSE LET line == IF key = "Subject"
                              THEN <<IF value # "" THEN value ELSE "No subject">>
                              ELSE IF key = "Parent" /\ value # ""
                              THEN <<"*" \o key \o "* " \o StrLink(bot, value)>>
                              ELSE IF value # "" /\ key # "Number"
                              THEN <<"*" \o key \o "* " \o value>>
                              ELSE <<>>
                      rest == SnowLines(bot, rec, k + 1)
                  IN  IF rest.raised # "none" THEN rest
                      ELSE [raised |-> "none", lines |-> line \o rest.lines]

\* ServiceNowBot.message from the loop on, lines 139-147: the text it
\* returns, or what the loop raises (AttributeError for every record where
\* collections has no Mapping)
SnowText(bot, quipped, rec) ==
    LET r == SnowLines(bot, rec, 1)
    IN  [raised |-> r.raised,
         text |-> IF r.raised = "none" THEN Join("\n> ", <<quipped>> \o r.lines)
                  ELSE ""]

-----------------------------------------------------------------------------
(* State *)

NoEvent == [type |-> "none"]
NoRecord == [number |-> ""]
\* the entry of draws for a draw that found no template (IndexError)
NoQuip == <<>>

\* the state when linkbot.py starts to load: the interpreter runs, the
\* configuration is there, no dispatcher is built, q = Queue() is empty
Init ==
    /\ python \in Interpreters
    /\ linkbots \in Configs
    /\ q = <<>>
    /\ heap = [n \in ListIds |->
                 IF n = "LinkBot.QUIPS" THEN SubSeq(QUIPS, 1, MaxClassQuips)
                 ELSE IF \E i \in 1..Len(linkbots) :
                            n = ConfList(i) /\ "QUIPS" \in DOMAIN linkbots[i]
                 THEN linkbots[CHOOSE i \in 1..Len(linkbots) : n = ConfList(i)].QUIPS
                 ELSE <<>>]
    /\ link_bots = [d \in Procs |-> <<>>]
    /\ pc = [d \in Procs |-> "init"]
    /\ cur = [d \in Procs |-> NoEvent]
    /\ bi = [d \in Procs |-> 0]
    /\ ms = [d \in Procs |-> <<>>]
    /\ link = [d \in Procs |-> ""]
    /\ idx = [d \in Procs |-> 0]
    /\ quip = [d \in Procs |-> NoQuip]
    /\ reply = [d \in Procs |-> ""]
    /\ posted = [d \in Procs |-> <<>>]
    /\ outcome = [d \in Procs |-> "none"]
    /\ draws = [d \in Procs |-> <<>>]
    /\ record = [d \in Procs |-> NoRecord]

Bot(d) == link_bots[d][bi[d]]

\* draws with one more draw of the responder of dispatcher d
Drawn(d, template) ==
    IF Len(link_bots[d]) = 1 /\ Len(draws[d]) < MaxDraws
    THEN [draws EXCEPT ![d] = Append(@, template)]
    ELSE draws

-----------------------------------------------------------------------------
(* Control: how process_slack_message goes on, returns and raises *)

Goto(d, p, o) ==
    /\ pc' = [pc EXCEPT ![d] = p]
    /\ outcome' = [outcome EXCEPT ![d] = o]

\* process_slack_message returns
Returns(d) == Goto(d, "returned", "none")

\* exception exc leaves process_slack_message
Raises(d, exc) == Goto(d, "raised", exc)

\* a loop over the responders that takes the matches of a bot last first
ForBotBackwards(d, i) ==
    IF i > Len(link_bots[d])
    THEN Returns(d) /\ UNCHANGED <<bi, ms>>
    ELSE IF link_bots[d][i].class \notin BotClasses
    THEN /\ bi' = [bi EXCEPT ![d] = i]
         /\ Raises(d, "AttributeError")
         /\ UNCHANGED ms
    ELSE /\ bi' = [bi EXCEPT ![d] = i]
         /\ ms' = [ms EXCEPT ![d] =
                     LET m == Match(linkbots[link_bots[d][i].conf].MATCH, cur[d].text)
                     IN  [k \in 1..Len(m) |-> m[Len(m) + 1 - k]]]
         /\ Goto(d, "formatch", "none")

\* "for bot in link_bots" reaches the i-th bot: bot.match(j['text']); an
\* object that has no match raises AttributeError
ForBot(d, i) ==
    IF i > Len(link_bots[d])
    THEN Returns(d) /\ UNCHANGED <<bi, ms>>
    ELSE IF link_bots[d][i].class \notin BotClasses
    THEN /\ bi' = [bi EXCEPT ![d] = i]
         /\ Raises(d, "AttributeError")
         /\ UNCHANGED ms
    ELSE /\ bi' = [bi EXCEPT ![d] = i]
         /\ ms' = [ms EXCEPT ![d] =
                     Match(linkbots[link_bots[d][i].conf].MATCH, cur[d].text)]
         /\ Goto(d, "formatch", "none")

\* bot.message returned text: next is slack.chat.post_message
Returned(d, text) ==
    /\ reply' = [reply EXCEPT ![d] = text]
    /\ Goto(d, "post", "none")

\* what follows _quip in bot.message: _quip returned quipped.  JiraLinkBot
\* holds it as msg and calls jira.issue; ServiceNowBot runs its loop over the
\* record, and what the loop raises (the AttributeError of items(), the
\* KeyError of _strlink) leaves message and process_slack_message with the
\* template drawn and removed and nothing posted; LinkBot returns it
AfterQuip(d, bot, quipped) ==
    IF bot.class = "JiraLinkBot"
    THEN /\ reply' = [reply EXCEPT ![d] = quipped]
         /\ Goto(d, "lookup", "none")
    ELSE IF bot.class = "ServiceNowBot"
    THEN LET r == SnowText(bot, quipped, record[d])
         IN  IF r.raised # "none"
             THEN Raises(d, r.raised) /\ UNCHANGED reply
             ELSE Returned(d, r.text)
    ELSE Returned(d, quipped)

\* _quip lines 79-80: "if not len(self._quiplist): self._quiplist = self._quips"
Refill(d, bot) ==
    link_bots' = [link_bots EXCEPT ![d][bi[d]] =
                    [bot EXCEPT !._quiplist =
                        IF Len(heap[bot._quiplist]) = 0 THEN bot._quips
                        ELSE bot._quiplist]]

-----------------------------------------------------------------------------
(* Actions *)

\* get_message_processor(slack), called by linkbot() and for every thread;
\* then the thread waits for an event (websocket.recv(), q.get())
GetMessageProcessor(d) ==
    /\ pc[d] = "init"
    /\ LET r == Processor(d) IN
       /\ link_bots' = [link_bots EXCEPT ![d] = r.bots]
       /\ pc' = [pc EXCEPT ![d] = IF r.raised = "none" THEN "recv"
                                  ELSE IF r.raised = "blocks" THEN "blocked"
                                  ELSE "failed"]
    /\ UNCHANGED <<python, linkbots, heap, cur, bi, ms, link, idx, quip, reply, posted,
                   outcome, draws, record, q>>

\* "if __name__ == '__main__': linkbot()", the last statement of the module:
\* process_slack_message = get_message_processor(slack)
Linkbot ==
    /\ pc[Workers[Len(Workers)]] = "recv"
    /\ GetMessageProcessor("main")

\* rcv = websocket.recv(); process_slack_message(rcv) is entered
Recv ==
    /\ pc["main"] = "recv"
    /\ \E j \in Events(linkbots) : cur' = [cur EXCEPT !["main"] = j]
    /\ Goto("main", "call", "none")
    /\ UNCHANGED <<python, linkbots, heap, link_bots, bi, ms, link, idx, quip, reply,
                   posted, draws, record, q>>

\* process_slack_message lines 166-172: the filter, then the first bot
Begin(d) ==
    /\ pc[d] = "call"
    /\ IF Ignored(cur[d])
       THEN Returns(d) /\ UNCHANGED <<bi, ms>>
       ELSE ForBot(d, 1)
    /\ UNCHANGED <<python, linkbots, heap, link_bots, cur, link, idx, quip, reply, posted,
                   draws, record, q>>

\* bot.message(match[1]) of LinkBot and JiraLinkBot, up to choice()
LinkBotMessage(d) ==
    LET bot == Bot(d)
        link_label == Head(ms[d])
    IN  /\ bot.class \in {"LinkBot", "JiraLinkBot"}
        /\ UNCHANGED record
        /\ IF AlreadySeen(bot, link_label)
           THEN \* LinkBotSeenException, caught on line 181
                /\ ms' = [ms EXCEPT ![d] = Tail(@)]
                /\ UNCHANGED <<link_bots, link, pc, outcome>>
           ELSE /\ Refill(d, [bot EXCEPT !._seen = Append(@, link_label)])
                /\ link' = [link EXCEPT ![d] = BaseLink(bot, link_label)]
                /\ Goto(d, "choice", "none")
                /\ UNCHANGED ms

\* bot.message(match[1]) of ServiceNowBot, up to choice(): no look at _seen.
\* client.get raises KeyError for a number of no table, then TypeError at
\* "self.host + self.api" when the dictionary has no HOST (None + str), then
\* KeyError for the answer of the service; each leaves message and
\* process_slack_message
ServiceNowMessage(d) ==
    LET bot == Bot(d)
        link_label == Head(ms[d])
    IN  /\ bot.class = "ServiceNowBot"
        /\ \E answer \in SnowAnswers(link_label) :
              IF TableFromNumber(link_label) = ""
              THEN /\ Raises(d, "KeyError")
                   /\ UNCHANGED <<link_bots, link, record, ms>>
              ELSE IF "HOST" \notin DOMAIN linkbots[bot.conf]
              THEN /\ Raises(d, "TypeError")
                   /\ UNCHANGED <<link_bots, link, record, ms>>
              ELSE IF answer.status # "found"
              THEN /\ Raises(d, "KeyError")
                   /\ UNCHANGED <<link_bots, link, record, ms>>
              ELSE /\ record' = [record EXCEPT ![d] = answer.record]
                   /\ Refill(d, bot)
                   /\ link' = [link EXCEPT ![d] = StrLink(bot, link_label)]
                   /\ Goto(d, "choice", "none")
                   /\ UNCHANGED ms

\* the argument bot.message(match[1]) of post_message is evaluated, up to the
\* call of choice(self._quiplist)
Message(d) ==
    /\ pc[d] = "formatch"
    /\ ms[d] # <<>>
    /\ (LinkBotMessage(d) \/ ServiceNowMessage(d))
    /\ UNCHANGED <<python, linkbots, heap, cur, bi, idx, quip, reply, posted, draws, q>>

\* random.choice reads len(seq): on an empty list it raises IndexError (3.11:
\* "if not len(seq)"; 3.9: the ValueError of _randbelow(0), turned into
\* IndexError), which _quip catches to return the link.  On a list that is
\* not empty 3.9 has computed the position from this one read; 3.11 goes on
\* to read the length again
Choice(d) ==
    /\ pc[d] = "choice"
    /\ LET bot == Bot(d)
           seq == heap[bot._quiplist]
       IN  IF seq = <<>>
           THEN /\ draws' = Drawn(d, NoQuip)
                /\ AfterQuip(d, bot, link[d])
                /\ UNCHANGED idx
           ELSE IF python = "3.11"
           THEN /\ Goto(d, "randbelow", "none")
                /\ UNCHANGED <<idx, draws, reply>>
           ELSE /\ \E k \in 1..Len(seq) : idx' = [idx EXCEPT ![d] = k]
                /\ Goto(d, "subscript", "none")
                /\ UNCHANGED <<draws, reply>>
    /\ UNCHANGED <<python, linkbots, heap, link_bots, cur, bi, ms, link, quip,
                   posted, record, q>>

\* random.choice of CPython 3.11, "self._randbelow(len(seq))": the length is
\* read again and a position below it is computed; when the list has been
\* emptied since the first read, _randbelow(0) loops for ever
Randbelow(d) ==
    /\ pc[d] = "randbelow"
    /\ LET seq == heap[Bot(d)._quiplist]
       IN  IF seq = <<>>
           THEN Goto(d, "spin", "none") /\ UNCHANGED idx
           ELSE /\ \E k \in 1..Len(seq) : idx' = [idx EXCEPT ![d] = k]
                /\ Goto(d, "subscript", "none")
    /\ UNCHANGED <<python, linkbots, heap, link_bots, cur, bi, ms, link, quip, reply,
                   posted, draws, record, q>>

\* random.choice reads seq[i]: the list may have become shorter since its
\* length was read, and then the read raises IndexError, which _quip catches
Subscript(d) ==
    /\ pc[d] = "subscript"
    /\ LET bot == Bot(d)
           seq == heap[bot._quiplist]
       IN  IF idx[d] > Len(seq)
           THEN /\ draws' = Drawn(d, NoQuip)
                /\ AfterQuip(d, bot, link[d])
                /\ UNCHANGED quip
           ELSE /\ quip' = [quip EXCEPT ![d] = seq[idx[d]]]
                /\ Goto(d, "remove", "none")
                /\ UNCHANGED <<draws, reply>>
    /\ idx' = [idx EXCEPT ![d] = 0]
    /\ UNCHANGED <<python, linkbots, heap, link_bots, cur, bi, ms, link, posted,
                   record, q>>

\* LinkBot._quip from self._quiplist.remove(quip) on; remove raises ValueError
\* when the template is not in the list
Remove(d) ==
    /\ pc[d] = "remove"
    /\ LET bot == Bot(d)
           list == heap[bot._quiplist]
       IN  IF quip[d] \notin Range(list)
           THEN /\ Raises(d, "ValueError")
                /\ UNCHANGED <<heap, draws, reply>>
           ELSE /\ heap' = [heap EXCEPT ![bot._quiplist] = ListRemove(@, quip[d])]
                /\ draws' = Drawn(d, quip[d])
                /\ AfterQuip(d, bot, Fmt(quip[d], <<link[d]>>))
    /\ UNCHANGED <<python, linkbots, link_bots, cur, bi, ms, link, idx, quip, posted,
                   record, q>>

\* JiraLinkBot.message lines 114-126: self.jira.issue(link_label) answers, or
\* it raises and msg is returned as it is
Lookup(d) ==
    /\ pc[d] = "lookup"
    /\ \E answer \in JiraAnswers : Returned(d, JiraText(reply[d], answer))
    /\ UNCHANGED <<python, linkbots, heap, link_bots, cur, bi, ms, link, idx, quip,
                   posted, draws, record, q>>

\* slack.chat.post_message(j['channel'], text, as_user=robo_id, parse='none')
\* with the answer of the service: the call is recorded and the next match
\* follows, or what it raises leaves process_slack_message
PostWith(d, answer) ==
    /\ pc[d] = "post"
    /\ IF answer = "ok"
       THEN /\ posted' = [posted EXCEPT ![d] = Append(@,
                  [channel |-> cur[d].channel, text |-> reply[d],
                   as_user |-> RoboId, parse |-> "none",
                   bot |-> bi[d], label |-> Head(ms[d])])]
            /\ ms' = [ms EXCEPT ![d] = Tail(@)]
            /\ Goto(d, "formatch", "none")
       ELSE /\ Raises(d, answer)
            /\ UNCHANGED <<posted, ms>>
    /\ UNCHANGED <<python, linkbots, heap, link_bots, cur, bi, link, idx, quip, reply,
                   draws, record, q>>

Post(d) == \E answer \in PostAnswers : PostWith(d, answer)

\* a reset that also gives the responder a new, empty quip list, so that the
\* next draw starts the pool over
ResetPool(d) ==
    /\ pc[d] = "formatch"
    /\ ms[d] = <<>>
    /\ link_bots' = [link_bots EXCEPT ![d][bi[d]]._seen = <<>>,
                                       ![d][bi[d]]._quiplist = "[]"]
    /\ ForBot(d, bi[d] + 1)
    /\ UNCHANGED <<python, linkbots, heap, cur, link, idx, quip, reply, posted,
                   draws, record, q>>

\* the matches of bot are done: bot.reset(), then the next bot
Reset(d) ==
    /\ pc[d] = "formatch"
    /\ ms[d] = <<>>
    /\ link_bots' = [link_bots EXCEPT ![d][bi[d]]._seen = <<>>]
    /\ ForBot(d, bi[d] + 1)
    /\ UNCHANGED <<python, linkbots, heap, cur, link, idx, quip, reply, posted,
                   draws, record, q>>

\* the caller after process_slack_message: linkbot() receives again when it
\* returned or raised KeyError ("except KeyError: pass") and lets anything
\* else end the loop (finally: websocket.close()) and its thread; worker()
\* catches nothing.  The locals of the call are gone.
Loop(d) ==
    /\ pc[d] \in {"returned", "raised"}
    /\ pc' = [pc EXCEPT ![d] =
                IF pc[d] = "returned" \/ (d = "main" /\ outcome[d] = "KeyError")
                THEN "recv" ELSE "dead"]
    /\ outcome' = [outcome EXCEPT ![d] = "none"]
    /\ cur' = [cur EXCEPT ![d] = NoEvent]
    /\ bi' = [bi EXCEPT ![d] = 0]
    /\ ms' = [ms EXCEPT ![d] = <<>>]
    /\ link' = [link EXCEPT ![d] = ""]
    /\ idx' = [idx EXCEPT ![d] = 0]
    /\ quip' = [quip EXCEPT ![d] = NoQuip]
    /\ reply' = [reply EXCEPT ![d] = ""]
    /\ posted' = [posted EXCEPT ![d] = <<>>]
    /\ record' = [record EXCEPT ![d] = NoRecord]
    /\ UNCHANGED <<python, linkbots, heap, link_bots, draws, q>>

-----------------------------------------------------------------------------
(* The module: its load, then linkbot() or the requests of the WSGI server *)

\* q = Queue(): the maxsize argument is left at its default, which means no
\* limit
maxsize == 0

\* "for _ in range(2)": the k-th thread is built and started after the ones
\* before it, and waits in worker's q.get(); a get_message_processor that
\* raises ends the loading there
StartWorker(k) ==
    /\ IF k = 1 THEN TRUE ELSE pc[Workers[k - 1]] = "recv"
    /\ GetMessageProcessor(Workers[k])

\* index(), the handler of POST /: request is no name of the module (only
\* Flask is imported from flask), so line 212 raises NameError and the lines
\* that build the message and put it on q are never reached.  q stays empty
\* and worker's q.get() never returns.
Index ==
    /\ pc[Workers[Len(Workers)]] = "recv"
    /\ UNCHANGED vars

Next ==
    \/ \E k \in 1..Len(Workers) : StartWorker(k)
    \/ Index
    \/ Linkbot
    \/ Recv
    \/ Begin("main")
    \/ Message("main")
    \/ Choice("main")
    \/ Randbelow("main")
    \/ Subscript("main")
    \/ Remove("main")
    \/ Lookup("main")
    \/ Post("main")
    \/ Reset("main")
    \/ Loop("main")

Spec == Init /\ [][Next]_vars

\* the same program when chat.post_message never raises
NextPosting ==
    \/ \E k \in 1..Len(Workers) : StartWorker(k)
    \/ Index
    \/ Linkbot
    \/ Recv
    \/ Begin("main")
    \/ Message("main")
    \/ Choice("main")
    \/ Randbelow("main")
    \/ Subscript("main")
    \/ Remove("main")
    \/ Lookup("main")
    \/ PostWith("main", "ok")
    \/ Reset("main")
    \/ Loop("main")

SpecPosting == Init /\ [][NextPosting]_vars

-----------------------------------------------------------------------------
(* Properties *)

AllSeenEmpty(d) ==
    \A i \in 1..Len(link_bots[d]) :
        "_seen" \in DOMAIN link_bots[d][i] => link_bots[d][i]._seen = <<>>

\* the quip set responder i was configured with, as loaded
ConfiguredQuips(i) ==
    IF "QUIPS" \in DOMAIN linkbots[i] THEN linkbots[i].QUIPS
    ELSE SubSeq(QUIPS, 1, MaxClassQuips)

\* the positions of text where a spelling of pattern stands between non-word
\* characters or text boundaries
BoundedOccurrences(pattern, text) ==
    {i \in 1..Len(text) :
        /\ text[i] \in LabelTokens
        /\ Lower(text[i]) = Lower(pattern)
        /\ i = 1 \/ text[i - 1] \in NonWord
        /\ i = Len(text) \/ text[i + 1] \in NonWord}

\* C1: within the dispatch of one event no responder posts two replies for
\* the same label.
C1_OneReplyPerLabel ==
    \A d \in Procs : \A i, k \in 1..Len(posted[d]) :
        (posted[d][i].bot = posted[d][k].bot /\ posted[d][i].label = posted[d][k].label)
            => i = k

\* C2: when process_slack_message has returned, the seen list of every
\* responder of the dispatcher is empty.
C2_SeenEmptyAfterReturn ==
    \A d \in Procs : pc[d] = "returned" => AllSeenEmpty(d)

\* C3: when a dispatcher enters the dispatch of an event, whatever happened to
\* the events before it, no responder of it holds a label in seen.
C3_NoLeakIntoNextEvent ==
    \A d \in Procs : pc[d] = "call" => AllSeenEmpty(d)

\* C4: bot.message lets no error but LinkBotSeenException out, so a failed
\* lookup never ends the dispatch: from the evaluation of bot.message the
\* dispatch goes on to the post or to the next match.
C4_LookupFailureStaysInside ==
    [][\A d \in Procs : pc[d] = "formatch" => pc'[d] # "raised"]_vars

\* C5: the draws of a responder that draws alone, from N >= 1 configured
\* templates, are all quipped, and no template comes twice within one run of N
\* draws (draws 1..N, N+1..2N, ...).
C5_QuipCycle ==
    \A d \in Procs :
        (Len(link_bots[d]) = 1 /\ Len(ConfiguredQuips(1)) >= 1) =>
            LET N == Len(ConfiguredQuips(1)) IN
            \A k \in 1..Len(draws[d]) :
                /\ draws[d][k] \in Range(ConfiguredQuips(1))
                /\ \A m \in 1..Len(draws[d]) :
                      (m # k /\ (m - 1) \div N = (k - 1) \div N)
                          => draws[d][m] # draws[d][k]

\* C6: an event that is no message, or that carries a bot_id, reaches no
\* matcher and no responder and causes no post: only messages without the key
\* bot_id get as far as a responder.
C6_IgnoredEvents ==
    \A d \in Procs :
        (cur[d].type # "message" \/ "bot_id" \in DOMAIN cur[d]) =>
            /\ pc[d] \notin {"formatch", "choice", "randbelow", "subscript",
                             "remove", "lookup", "post", "raised", "spin"}
            /\ posted[d] = <<>>

\* C6, amended: an event that is no message, or a message whose bot_id is
\* present and not empty, reaches no matcher and no responder and causes no
\* post, and the step that handles it returns and leaves every seen list and
\* every quip list as it was.
C6_IgnoredBotEvents ==
    /\ [](\A d \in Procs :
            (cur[d].type # "message" \/ DictGet(cur[d], "bot_id", "") # "") =>
                /\ pc[d] \notin {"formatch", "choice", "randbelow", "subscript",
                                 "remove", "lookup", "post", "raised", "spin"}
                /\ posted[d] = <<>>)
    /\ [][\A d \in Procs :
            (/\ pc[d] = "call"
             /\ cur[d].type # "message" \/ DictGet(cur[d], "bot_id", "") # ""
             /\ pc'[d] # pc[d]) =>
                /\ pc'[d] = "returned"
                /\ UNCHANGED <<link_bots, heap, posted>>]_vars

C6_Witness ==
    /\ pc["main"] = "returned"
    /\ DictGet(cur["main"], "bot_id", "") = "B1"
    /\ BoundedOccurrences(linkbots[1].MATCH, cur["main"].text) # {}
    /\ posted["main"] = <<>>

\* C7: one generic responder with an empty quip set and the link template
\* <%s|%s>, posting succeeding: the dispatch of a message whose bounded
\* occurrences of the pattern are k >= 1 occurrences of one label posts exactly
\* one message, the bare link, to the channel of the event, as the bot, with
\* parse none.
C7_OneBareLink ==
    \A d \in Procs :
        (/\ pc[d] = "returned"
         /\ Len(linkbots) = 1
         /\ DictGet(linkbots[1], "LINK_CLASS", "LinkBot") = "LinkBot"
         /\ ConfiguredQuips(1) = <<>>
         /\ DictGet(linkbots[1], "LINK", DefaultLink) = LinkT
         /\ cur[d].type = "message"
         /\ "bot_id" \notin DOMAIN cur[d]) =>
            \A lab \in LabelTokens :
                LET occ == BoundedOccurrences(linkbots[1].MATCH, cur[d].text) IN
                (occ # {} /\ \A i \in occ : cur[d].text[i] = lab) =>
                    /\ Len(posted[d]) = 1
                    /\ posted[d][1].text = "<" \o lab \o "|" \o lab \o ">"
                    /\ posted[d][1].channel = cur[d].channel
                    /\ posted[d][1].as_user = RoboId
                    /\ posted[d][1].parse = "none"

C7_Witness ==
    /\ pc["main"] = "returned"
    /\ linkbots = <<ConfBare>>
    /\ cur["main"].type = "message"
    /\ "bot_id" \notin DOMAIN cur["main"]
    /\ cur["main"].channel = "#ops"
    /\ Cardinality(BoundedOccurrences("ABC-1", cur["main"].text)) = 2
    /\ Len(posted["main"]) = 1
    /\ posted["main"][1].text = "<abc-1|abc-1>"

\* C8: with no responder configured, or with a responder variant that is no
\* responder class, get_message_processor raises: the dispatcher holds no
\* responders, dispatches no event and posts nothing.
C8_NoDispatcher ==
    (Len(linkbots) = 0 \/
     \E i \in 1..Len(linkbots) :
        DictGet(linkbots[i], "LINK_CLASS", "LinkBot") \notin BotClasses) =>
        \A d \in Procs :
            /\ pc[d] \in {"init", "failed"}
            /\ link_bots[d] = <<>>
            /\ cur[d] = NoEvent
            /\ posted[d] = <<>>

\* C9: whatever chat.post_message answers for one match, the dispatch goes on
\* with the next match of the event.
C9_PostFailureGoesOn ==
    [][\A d \in Procs : (pc[d] = "post" /\ pc'[d] # "post") => pc'[d] = "formatch"]_vars

\* C10: a failure during the dispatch of an event does not end the thread
\* that handled it: a thread that dispatches events ends only by taking the
\* empty payload from the queue, never through what a dispatch raised.
C10_WorkerEndsOnSentinelOnly ==
    [][\A d \in Procs :
          (pc[d] # "dead" /\ pc'[d] = "dead") =>
              (pc[d] = "recv" /\ q # <<>> /\ Head(q) = <<>>)]_vars

\* the labels at the positions BoundedOccurrences names, in text order
RECURSIVE BoundedLabels(_, _, _)
BoundedLabels(pattern, text, i) ==
    IF i > Len(text) THEN <<>>
    ELSE (IF i \in BoundedOccurrences(pattern, text) THEN <<text[i]>> ELSE <<>>)
         \o BoundedLabels(pattern, text, i + 1)

\* C11: when the loop over the responders reaches a responder, the matches
\* bot.match hands it are the labels of the bounded occurrences of its pattern
\* in the text of the event, one per occurrence, in text order, and nothing
\* else; occurrences one non-word character apart each give a label.
C11_MatchEveryBoundedOccurrence ==
    [][\A d \in Procs :
          (bi'[d] # bi[d] /\ bi'[d] # 0 /\ pc'[d] = "formatch") =>
              ms'[d] = BoundedLabels(linkbots[link_bots[d][bi'[d]].conf].MATCH,
                                     cur[d].text, 1)]_vars

\* a is b with some of its elements left out
RECURSIVE IsSubseq(_, _)
IsSubseq(a, b) ==
    IF a = <<>> THEN TRUE
    ELSE IF b = <<>> THEN FALSE
    ELSE IF Head(a) = Head(b) THEN IsSubseq(Tail(a), Tail(b))
    ELSE IsSubseq(a, Tail(b))

\* the labels of the posts dispatcher d made for its i-th responder, in order
PostedLabels(d, i) ==
    LET mine == SelectSeq(posted[d], LAMBDA p : p.bot = i)
    IN  [k \in 1..Len(mine) |-> mine[k].label]

\* C12: the posts of one dispatch come responder by responder in the order of
\* the configured list, and the posts for one responder follow the order of
\* the occurrences of its pattern in the text.
C12_ResponderOrder ==
    \A d \in Procs :
        posted[d] # <<>> =>
            /\ \A a, b \in 1..Len(posted[d]) :
                  a < b => posted[d][a].bot <= posted[d][b].bot
            /\ \A i \in 1..Len(link_bots[d]) :
                  IsSubseq(PostedLabels(d, i),
                           BoundedLabels(linkbots[link_bots[d][i].conf].MATCH,
                                         cur[d].text, 1))

C12_Witness ==
    /\ Len(link_bots["main"]) = 2
    /\ \A i \in 1..2 : link_bots["main"][i].class = "LinkBot"
    /\ cur["main"].type = "message"
    /\ Cardinality(BoundedOccurrences("ABC-1", cur["main"].text)) = 2
    /\ [k \in 1..Len(posted["main"]) |->
           <<posted["main"][k].bot, posted["main"][k].label>>]
         = << <<1, "ABC-1">>, <<2, "ABC-1">> >>

\* C14: the queue has a fixed capacity: it was built with a limit, and the
\* pending payloads never outnumber it (a put on a full queue waits).
C14_QueueBounded ==
    maxsize > 0 /\ Len(q) <= maxsize

\* C15: the receive loop hands every event it receives to the queue and goes
\* on receiving: a step of the loop from its recv() puts one payload and
\* leaves the loop at recv(), outside the dispatcher.
C15_ReceiveLoopOnlyEnqueues ==
    [][(pc["main"] = "recv" /\ (pc'["main"] # "recv" \/ cur'["main"] # cur["main"])) =>
          (/\ pc'["main"] = "recv"
           /\ cur'["main"] = NoEvent
           /\ Len(q') = Len(q) + 1)]_vars

\* C16: the configured quip sets stay as loaded: the class list LinkBot.QUIPS
\* and the QUIPS list of every configured dictionary hold the templates they
\* held at startup, whatever was drawn.
C16_ConfiguredQuipsKept ==
    /\ heap["LinkBot.QUIPS"] = SubSeq(QUIPS, 1, MaxClassQuips)
    /\ \A i \in 1..Len(linkbots) :
          "QUIPS" \in DOMAIN linkbots[i] => heap[ConfList(i)] = linkbots[i].QUIPS

\* C19: the step that resets a responder (its matches are done) empties its
\* seen list and changes nothing else of any responder: the quip list the
\* responder draws from is the same object with the same templates left, and
\* the other responders are as they were.
C19_ResetClearsSeenOnly ==
    [][\A d \in Procs :
          (/\ pc[d] = "formatch"
           /\ ms[d] = <<>>
           /\ pc'[d] # pc[d] \/ bi'[d] # bi[d]) =>
              /\ heap' = heap
              /\ link_bots' = [link_bots EXCEPT ![d][bi[d]]._seen = <<>>]]_vars

C19_Witness ==
    /\ pc["main"] = "returned"
    /\ Len(posted["main"]) = 1
    /\ link_bots["main"][1]._seen = <<>>
    /\ link_bots["main"][1]._quiplist = "LINKBOTS[0]['QUIPS']"
    /\ Len(heap["LINKBOTS[0]['QUIPS']"]) = 1

====
